---- MODULE Spec2Model ----
(***************************************************************************)
(* Job-serialisation pipeline of the downloader bot:                       *)
(*   - the videos table of db/database.py (the cache),                     *)
(*   - the processing queue and its single worker of bot/handlers.py,      *)
(*   - the conversation of the shared identity with the responder bots     *)
(*     (userbot/client.py): sends, the id watermark and the polls.         *)
(* None is modelled as 0 (message ids and storage ids start at 1).         *)
(***************************************************************************)
EXTENDS FiniteSets, Integers, Naturals, Sequences, TLC

\* ---------------------------------------------------------------- bounds
\* Number of handle_text invocations explored.
MaxReq == 2

\* ------------------------------------------------------------- parameters
Users == {1, 2}
Urls == {"u1", "u2"}
QueueTypes == {"instagram", "tiktok"}
NoFormat == "none"

\* Both Instagram and TikTok go to the same responder (client.py:25).
BotOf(url_type) ==
  CASE url_type \in {"instagram", "tiktok"} -> "keepmedia"
    [] url_type = "facebook" -> "facebook"
    [] url_type = "twitter" -> "twitter"
    [] OTHER -> "youtube"

\* max_retries of process_instagram_url; the other flows send once.
max_retries == 2

\* A loop that would run once more than max_retries.
attempts_one_more(url_type) == IF url_type = "instagram" THEN max_retries + 1 ELSE 1

Attempts(url_type) == IF url_type = "instagram" THEN max_retries ELSE 1

\* The cache key: the url, or url + "#" + format.
CacheKey(url, fmt) == <<url, fmt>>

VARIABLES
  videos,                      \* rows of the videos table, in insertion order
  dbclock,                     \* CURRENT_TIMESTAMP of the database
  processing_queue,            \* asyncio.Queue of request ids
  processing_workers_started,
  workers,                     \* number of process_queue_worker tasks created
  current_processing_user,
  requests,                    \* the ProcessingRequest objects, by creation order
  nsub,                        \* handle_text invocations so far
  wpc, wreq, wm, attempt, got, \* the worker: position and locals
  nextId, pending, inbox,      \* the identity's conversations
  storageNext,                 \* next message id of the storage channel
  uploads,                     \* history: (key, reference) pairs returned by uploads
  served,                      \* history: (key, reference) pairs delivered from the cache
  tasks,                       \* the YouTube and Twitter submissions and their handlers
  youtube_requests,            \* userbot.youtube_requests: user -> stored url
  twitter_requests,            \* userbot.twitter_requests: user -> stored url
  dbcalls,                     \* history: the add_video calls made on the database alone
  chat,                        \* one conversation, oldest first: the kind of each message
  pw,                          \* one call of a _wait_for_* function
  nego,                        \* one format negotiation on the conversation
  is_authenticated,            \* DownloaderUserbot.is_authenticated
  job,                         \* one process_*_url call on the session
  sel,                         \* one call of find_matching_format_callback
  grp,                         \* one call of _upload_media_group_to_storage_channel
  cap,                         \* one call of _modify_twitter_caption
  tw                           \* one call of process_twitter_url

vars == <<videos, dbclock, processing_queue, processing_workers_started, workers,
          current_processing_user, requests, nsub, wpc, wreq, wm, attempt, got,
          nextId, pending, inbox, storageNext, uploads, served,
          tasks, youtube_requests, twitter_requests, dbcalls, chat, pw,
          nego, is_authenticated, job, sel, grp, cap, tw>>

dbVars == <<videos, dbclock>>
flowVars == <<tasks, youtube_requests, twitter_requests>>
pollVars == <<chat, pw>>
sessVars == <<is_authenticated, job>>
toolVars == <<sel, grp, cap, tw>>
pipelineVars == <<processing_queue, processing_workers_started, workers,
                  current_processing_user, requests, nsub, wpc, wreq, wm, attempt, got,
                  nextId, pending, inbox, storageNext, uploads, served>>
queueVars == <<processing_queue, processing_workers_started, workers, requests, nsub>>
workerLocals == <<wreq, wm, attempt, got>>
convVars == <<nextId, pending, inbox>>

\* ------------------------------------------------------------ the database
RowsOf(table, key) == {i \in 1..Len(table) : table[i].url = key}

\* get_video: (channel_message_id, timestamp) of the row, or None.
get_video(table, key) ==
  IF RowsOf(table, key) = {} THEN 0
  ELSE table[CHOOSE i \in RowsOf(table, key) : \A j \in RowsOf(table, key) : i <= j].channel_message_id

\* add_video with INSERT OR REPLACE semantics (no first-writer-wins).
add_video_replace(table, key, ref, platform, now, dbok) ==
  IF ~dbok THEN table
  ELSE IF RowsOf(table, key) # {}
    THEN [table EXCEPT ![CHOOSE i \in RowsOf(table, key) : TRUE] =
            [url |-> key, channel_message_id |-> ref, platform |-> platform, timestamp |-> now]]
    ELSE Append(table, [url |-> key, channel_message_id |-> ref, platform |-> platform, timestamp |-> now])

\* add_video with the UNIQUE constraint on url dropped.
add_video_nounique(table, key, ref, platform, now, dbok) ==
  IF ~dbok THEN table
  ELSE Append(table, [url |-> key, channel_message_id |-> ref, platform |-> platform, timestamp |-> now])

\* add_video: the table after the INSERT. UNIQUE(url) makes the INSERT raise
\* IntegrityError when a row for the key exists; any other database error
\* (dbok = FALSE) also leaves the table as it was.
add_video(table, key, ref, platform, now, dbok) ==
  IF ~dbok \/ RowsOf(table, key) # {} THEN table
  ELSE Append(table, [url |-> key, channel_message_id |-> ref, platform |-> platform, timestamp |-> now])

\* The value add_video returns.
add_video_returns(table, key, dbok) == dbok /\ RowsOf(table, key) = {}

\* ------------------------------------------------------- the conversation
\* inbox holds the media messages received from the responders, each with its
\* message id, and (history) the request whose url message it answers. pending
\* holds the requests whose url message a responder has not answered yet.
\* Messages of a responder's conversation with id above the watermark.
Above(bot, watermark) == {m \in inbox : m.bot = bot /\ m.id > watermark}

\* The watermarks of the polls in progress on a responder's conversation.
Watermarks(bot) ==
  IF wpc = "poll" /\ BotOf(requests[wreq].url_type) = bot THEN {wm} ELSE {}

\* A message at or below every watermark in use can never be returned by a
\* poll: every later watermark is the id of a later message. Such messages are
\* left out of the state.
Visible(msgs) == {m \in msgs : \E w \in Watermarks(m.bot) : m.id > w}

\* The responder answers one of the url messages it has received with a media
\* message; the answer gets the next message id of the account.
BotReply ==
  /\ \E s \in pending :
       /\ pending' = pending \ {s}
       /\ inbox' = Visible(inbox \cup {[id |-> nextId, bot |-> s.bot, ans |-> s.tag]})
  /\ nextId' = nextId + 1
  /\ UNCHANGED <<dbVars, queueVars, current_processing_user, wpc, workerLocals,
                 storageNext, uploads, served>>
  /\ UNCHANGED <<flowVars, dbcalls, pollVars, nego, sessVars, toolVars>>

Init ==
  /\ videos = <<>>
  /\ dbclock = 1
  /\ processing_queue = <<>>
  /\ processing_workers_started = FALSE
  /\ workers = 0
  /\ current_processing_user = 0
  /\ requests = <<>>
  /\ nsub = 0
  /\ wpc = "none"
  /\ wreq = 0
  /\ wm = 0
  /\ attempt = 0
  /\ got = {}
  /\ nextId = 1
  /\ pending = {}
  /\ inbox = {}
  /\ storageNext = 1
  /\ uploads = {}
  /\ served = {}
  /\ tasks = <<>>
  /\ youtube_requests = [u \in Users |-> "none"]
  /\ twitter_requests = [u \in Users |-> "none"]
  /\ dbcalls = <<>>
  /\ chat = <<>>
  /\ pw = [pc |-> "idle", fn |-> "none", bot |-> "none", max_wait_time |-> 0,
           return_all |-> FALSE, sent_message_id |-> 0,
           elapsed |-> 0, why |-> "none", ids |-> {}, raised |-> FALSE,
            allfailed |-> TRUE, seen |-> 0]
  /\ nego = [pc |-> "idle", sent_message_id |-> 0, format_message |-> 0, clicked |-> 0]
  /\ is_authenticated = TRUE
  /\ job = [pc |-> "idle", flow |-> "none", attempt |-> 0, retried |-> FALSE,
            responder_calls |-> 0, recoveries |-> 0, faults |-> 0,
            flooded |-> FALSE, flood_seconds |-> 0, returned_wait |-> 0, after_flood |-> 0,
            result |-> "none", auth_at_start |-> TRUE, consec_at_start |-> 0,
            recovered_at_start |-> 0, njobs |-> 0, consec |-> 0, recovered |-> 0,
            lost |-> FALSE]
  /\ sel = [pc |-> "idle", buttons |-> <<>>, desired_format |-> <<>>, result |-> 0]
  /\ grp = [pc |-> "idle", messages |-> 0, with_media |-> 0, sent |-> 0, warned |-> FALSE,
            result |-> 0, next |-> 1, calls |-> 0]
  /\ cap = [pc |-> "idle", original_caption |-> <<>>, result |-> <<>>]
  /\ tw = [pc |-> "idle", pre_sent_message_id |-> 0, callback_data |-> FALSE,
           sent_message_id |-> 0, sends |-> 0, format_watermark |-> 0,
           media_watermark |-> 0, media |-> {}, result |-> "none"]

\* Where a request is: waiting in the queue, with the worker, or behind it.
InQueue(r) == \E k \in 1..Len(processing_queue) : processing_queue[k] = r
Processing(r) == wreq = r
Handled(r) == r \in 1..Len(requests) /\ ~InQueue(r) /\ ~Processing(r)

\* --------------------------------------------------- handle_text, queued
\* start_processing_workers without the flag test: a task for every call.
start_workers_every_call ==
  /\ processing_workers_started' = TRUE
  /\ workers' = workers + 1
  /\ wpc' = wpc

\* start_processing_workers: creates the worker task the first time only.
\* There is no await between the test and the assignment.
start_processing_workers ==
  IF ~processing_workers_started
    THEN /\ processing_workers_started' = TRUE
         /\ workers' = workers + 1
         /\ wpc' = "get"
    ELSE UNCHANGED <<processing_workers_started, workers, wpc>>

\* handle_text for an Instagram or TikTok url whose key is cached: the stored
\* message is copied to the requester, nothing is queued.
HandleTextCached(user, url, url_type) ==
  /\ nsub < MaxReq
  /\ get_video(videos, CacheKey(url, NoFormat)) # 0
  /\ nsub' = nsub + 1
  /\ served' = served \cup {<<CacheKey(url, NoFormat), get_video(videos, CacheKey(url, NoFormat))>>}
  /\ UNCHANGED <<dbVars, processing_queue, processing_workers_started, workers, requests,
                 current_processing_user, wpc, workerLocals, convVars, storageNext, uploads>>
  /\ UNCHANGED <<flowVars, dbcalls, pollVars, nego, sessVars, toolVars>>

\* handle_text on a cache miss: queue_processing_request. The loading message is
\* sent before the put; when sending it raises, the request is never queued.
\* History kept with the request: sends (url messages sent for it) and overlaps
\* (the unfinished requests for the same url at the time it was queued).
QueueProcessingRequest(user, url, url_type, loading_ok) ==
  /\ nsub < MaxReq
  /\ get_video(videos, CacheKey(url, NoFormat)) = 0
  /\ nsub' = nsub + 1
  /\ start_processing_workers
  /\ IF loading_ok
       THEN /\ requests' = Append(requests,
                 [user_id |-> user, url |-> url, url_type |-> url_type,
                  completed |-> FALSE, result |-> 0, error |-> FALSE,
                  sends |-> 0,
                  overlaps |-> {i \in 1..Len(requests) :
                                  requests[i].url = url /\ ~Handled(i)}])
            /\ processing_queue' = Append(processing_queue, Len(requests) + 1)
       ELSE UNCHANGED <<requests, processing_queue>>
  /\ UNCHANGED <<dbVars, current_processing_user, workerLocals, convVars, storageNext,
                 uploads, served>>
  /\ UNCHANGED <<flowVars, dbcalls, pollVars, nego, sessVars, toolVars>>

\* The requester has no influence on the queued flow: the invocations come
\* from the two users in turn, so that consecutive jobs have different requesters.
Requester(n) == IF n % 2 = 0 THEN 1 ELSE 2

HandleText ==
  \E url \in Urls, url_type \in QueueTypes :
    \/ HandleTextCached(Requester(nsub), url, url_type)
    \/ \E loading_ok \in BOOLEAN :
         QueueProcessingRequest(Requester(nsub), url, url_type, loading_ok)

\* --------------------------------------------------- process_queue_worker
Req == requests[wreq]
Bot == BotOf(Req.url_type)

\* request = await processing_queue.get(); current_processing_user = user_id
WorkerGet ==
  /\ wpc = "get"
  /\ processing_queue # <<>>
  /\ wreq' = Head(processing_queue)
  /\ processing_queue' = Tail(processing_queue)
  /\ current_processing_user' = requests[Head(processing_queue)].user_id
  /\ wpc' = "send"
  /\ UNCHANGED <<dbVars, processing_workers_started, workers, requests, nsub,
                 wm, attempt, got, convVars, storageNext, uploads, served>>
  /\ UNCHANGED <<flowVars, dbcalls, pollVars, nego, sessVars, toolVars>>

\* process_*_url returned value: request.result = value. With a reference the
\* worker adds the row (add_video never raises), then it sends the result;
\* with None it sends the error message.
Return(value) ==
  /\ requests' = [requests EXCEPT ![wreq].result = value]
  /\ attempt' = 0
  /\ wm' = 0
  /\ got' = {}
  /\ wpc' = "deliver"

\* After a failed attempt: the Instagram loop tries again while attempts are
\* left, every other path returns None.
RetryOrFail ==
  IF attempt + 1 < Attempts(Req.url_type)
    THEN /\ attempt' = attempt + 1
         /\ wpc' = "send"
         /\ wm' = 0
         /\ got' = {}
         /\ UNCHANGED requests
    ELSE Return(0)

\* The priming "/start" and the url are sent; the id of the url message is the
\* watermark. FloodWaitError returns None at once; any other exception ends the
\* attempt.
WorkerSend ==
  /\ wpc = "send"
  /\ \E outcome \in {"sent", "flood", "error"} :
       CASE outcome = "sent" ->
              /\ pending' = pending \cup {[bot |-> Bot, tag |-> wreq]}
              /\ nextId' = nextId + 2
              /\ wm' = nextId + 1
              /\ wpc' = "poll"
              /\ inbox' = {m \in inbox : m.bot # Bot}
              /\ requests' = [requests EXCEPT ![wreq].sends = @ + 1]
              /\ UNCHANGED <<attempt, got>>
         [] outcome = "flood" ->
              /\ Return(0)
              /\ UNCHANGED convVars
         [] OTHER ->
              /\ RetryOrFail
              /\ UNCHANGED convVars
  /\ UNCHANGED <<dbVars, processing_queue, processing_workers_started, workers, nsub,
                 current_processing_user, wreq, storageNext, uploads, served>>
  /\ UNCHANGED <<flowVars, dbcalls, pollVars, nego, sessVars, toolVars>>

\* The message of a set with the largest id.
Latest(ms) == CHOOSE m \in ms : \A n \in ms : n.id <= m.id

\* _wait_for_video_response: a poll that finds media above the watermark returns
\* it (all of it for Instagram, the latest for TikTok); a poll that finds none
\* may be the last one before the timeout.
WorkerPoll ==
  /\ wpc = "poll"
  /\ IF Above(Bot, wm) # {}
       THEN /\ got' = IF Req.url_type = "instagram" THEN Above(Bot, wm) ELSE {Latest(Above(Bot, wm))}
            /\ wpc' = "upload"
            /\ UNCHANGED <<attempt, wm, requests>>
       ELSE RetryOrFail
  /\ inbox' = {m \in inbox : m.bot # Bot}
  /\ UNCHANGED <<dbVars, processing_queue, processing_workers_started, workers, nsub,
                 current_processing_user, wreq, nextId, pending, storageNext, uploads, served>>
  /\ UNCHANGED <<flowVars, dbcalls, pollVars, nego, sessVars, toolVars>>

\* The group upload sends up to 10 items and returns the id of the last one.
MaxGroup == 10

\* The id of the first message of the group.
first_id(first, n) == first

\* last_storage_message_id = sent_messages[-1].id
last_id(first, n) == first + n - 1

Min(a, b) == IF a < b THEN a ELSE b

\* The worker stores whatever the process call returned, reference or None.
StoreResultAlways(key, ref, platform) ==
  /\ \E dbok \in BOOLEAN : videos' = add_video(videos, key, ref, platform, dbclock, dbok)
  /\ UNCHANGED dbclock

\* if storage_message_id: await db.add_video(key, storage_message_id, platform)
StoreResult(key, ref, platform) ==
  IF ref # 0
    THEN /\ \E dbok \in BOOLEAN : videos' = add_video(videos, key, ref, platform, dbclock, dbok)
         /\ UNCHANGED dbclock
    ELSE UNCHANGED dbVars

\* _upload_to_storage_channel / _upload_media_group_to_storage_channel return
\* the id of the message in the storage channel, or None; process_*_url
\* returns that value and the worker stores it.
WorkerUpload ==
  /\ wpc = "upload"
  /\ \E ok \in BOOLEAN :
       LET n == Min(Cardinality(got), MaxGroup)
           ref == IF ok THEN last_id(storageNext, n) ELSE 0
       IN /\ storageNext' = IF ok THEN storageNext + n ELSE storageNext
          /\ uploads' = IF ok THEN uploads \cup {<<CacheKey(Req.url, NoFormat), ref>>} ELSE uploads
          /\ Return(ref)
          /\ StoreResult(CacheKey(Req.url, NoFormat), ref, Req.url_type)
  /\ UNCHANGED <<processing_queue, processing_workers_started, workers, nsub,
                 current_processing_user, wreq, convVars, served>>
  /\ UNCHANGED <<flowVars, dbcalls, pollVars, nego, sessVars, toolVars>>

\* request.completed.set(); current_processing_user = None; back to the queue.
Complete(r) ==
  /\ requests' = [r EXCEPT ![wreq].completed = TRUE]
  /\ current_processing_user' = 0
  /\ wpc' = "get"
  /\ wreq' = 0

\* The deliver step when the worker has no outer try: an exception of the
\* reply in the except clause ends the worker task.
WorkerDeliverDies ==
  /\ wpc = "deliver"
  /\ \E outcome \in {"ok", "raised", "raised_twice"} :
       CASE outcome = "ok" -> Complete(requests)
         [] outcome = "raised" -> Complete([requests EXCEPT ![wreq].error = TRUE])
         [] OTHER ->
              /\ requests' = [requests EXCEPT ![wreq].error = TRUE]
              /\ wpc' = "dead"
              /\ UNCHANGED <<current_processing_user, wreq>>
  /\ UNCHANGED <<dbVars, processing_queue, processing_workers_started, workers, nsub,
                 wm, attempt, got, convVars, storageNext, uploads, served>>
  /\ UNCHANGED <<flowVars, dbcalls, pollVars, nego, sessVars, toolVars>>

\* send_processed_result (copy_message; on failure a notice to the requester)
\* or, without a reference, the error message. An exception of copy_message is
\* caught inside send_processed_result. An exception of a reply reaches the
\* except clause of the worker: request.error = str(e) and an error message is
\* sent to the requester. When this reply raises too, the outer except logs it,
\* sleeps a second and the loop goes on: completed.set() and the clearing of
\* current_processing_user are skipped.
WorkerDeliver ==
  /\ wpc = "deliver"
  /\ \E outcome \in {"ok", "raised", "raised_twice"} :
       CASE outcome = "ok" -> Complete(requests)
         [] outcome = "raised" -> Complete([requests EXCEPT ![wreq].error = TRUE])
         [] OTHER ->
              /\ requests' = [requests EXCEPT ![wreq].error = TRUE]
              /\ wpc' = "get"
              /\ wreq' = 0
              /\ UNCHANGED current_processing_user
  /\ UNCHANGED <<dbVars, processing_queue, processing_workers_started, workers, nsub,
                 wm, attempt, got, convVars, storageNext, uploads, served>>
  /\ UNCHANGED <<flowVars, dbcalls, pollVars, nego, sessVars, toolVars>>

Worker ==
  \/ WorkerGet
  \/ WorkerSend
  \/ WorkerPoll
  \/ WorkerUpload
  \/ WorkerDeliver

Next ==
  \/ HandleText
  \/ Worker
  \/ BotReply

Spec == Init /\ [][Next]_vars

\* The event loop runs the worker task whenever it can take a step.
FairSpec == Spec /\ WF_vars(Worker)

\* ------------------------------------- YouTube and Twitter format flows
\* These urls never enter the queue: the handler task itself talks to the
\* responder, in show_*_formats and again in handle_*_format_callback.
FlowTypes == {"youtube", "twitter"}

\* The format buttons offered (two of the four YouTube formats; the Twitter
\* button texts are the responder's).
Formats(url_type) == IF url_type = "youtube" THEN {"360p", "mp3"} ELSE {"HD", "SD"}

\* cached_formats of show_youtube_formats: the formats of the url with a row.
\* show_twitter_formats reads nothing; for Twitter the set is history only.
cached_formats(url, url_type) ==
  {f \in Formats(url_type) : get_video(videos, CacheKey(url, f)) # 0}

StoredRequest(url_type, user) ==
  IF url_type = "youtube" THEN youtube_requests[user] ELSE twitter_requests[user]

\* handle_text for a YouTube or Twitter url up to the await of the responder's
\* format message. Twitter is looked up by the bare url first; YouTube is not
\* looked up. show_*_formats then sends the url to the responder, whatever the
\* cache holds. When the send raises the handler ends.
ShowFormats(user, url, url_type, sent_ok) ==
  /\ nsub < MaxReq
  /\ url_type = "twitter" => get_video(videos, CacheKey(url, NoFormat)) = 0
  /\ nsub' = nsub + 1
  /\ tasks' = Append(tasks,
       [user_id |-> user, url |-> url, url_type |-> url_type,
        pc |-> IF sent_ok THEN "show_wait" ELSE "done",
        fmt |-> NoFormat,
        sends |-> IF sent_ok THEN 1 ELSE 0,
        cached_formats |-> cached_formats(url, url_type)])
  /\ UNCHANGED <<dbVars, processing_queue, processing_workers_started, workers,
                 current_processing_user, requests, wpc, workerLocals, convVars,
                 storageNext, uploads, served, youtube_requests, twitter_requests, dbcalls, pollVars, nego, sessVars, toolVars>>

HandleTextFormats ==
  \E url \in Urls, url_type \in FlowTypes :
    \/ \E sent_ok \in BOOLEAN : ShowFormats(Requester(nsub), url, url_type, sent_ok)
    \/ /\ url_type = "twitter"
       /\ HandleTextCached(Requester(nsub), url, url_type)

\* _wait_for_format_message returned. With a keyboard the request is stored
\* under the user and the menu is shown. Without one YouTube gives up, Twitter
\* goes on to process_twitter_url with the message already sent.
FormatMessage(t) ==
  /\ tasks[t].pc = "show_wait"
  /\ \E keyboard \in BOOLEAN :
       IF keyboard
         THEN /\ tasks' = [tasks EXCEPT ![t].pc = "menu"]
              /\ IF tasks[t].url_type = "youtube"
                   THEN /\ youtube_requests' = [youtube_requests EXCEPT ![tasks[t].user_id] = tasks[t].url]
                        /\ UNCHANGED twitter_requests
                   ELSE /\ twitter_requests' = [twitter_requests EXCEPT ![tasks[t].user_id] = tasks[t].url]
                        /\ UNCHANGED youtube_requests
         ELSE /\ tasks' = [tasks EXCEPT ![t].pc = IF tasks[t].url_type = "twitter" THEN "auto" ELSE "done"]
              /\ UNCHANGED <<youtube_requests, twitter_requests>>
  /\ UNCHANGED <<dbVars, pipelineVars, dbcalls, pollVars, nego, sessVars, toolVars>>

\* handle_*_format_callback up to the first message of process_*_url: the
\* stored request of the user gives the url, the key is url#format. A cached
\* key is delivered; otherwise process_*_url sends the url to the responder
\* again, unless no button matches or the send raises.
FormatCallback(t, fmt) ==
  /\ tasks[t].pc = "menu"
  /\ LET url == StoredRequest(tasks[t].url_type, tasks[t].user_id)
         key == CacheKey(url, fmt)
     IN IF get_video(videos, key) # 0
          THEN /\ served' = served \cup {<<key, get_video(videos, key)>>}
               /\ tasks' = [tasks EXCEPT ![t].pc = "done", ![t].url = url, ![t].fmt = fmt]
          ELSE /\ \E outcome \in {"sent", "none"} :
                    tasks' = [tasks EXCEPT ![t].pc = IF outcome = "sent" THEN "proc" ELSE "done",
                                           ![t].url = url, ![t].fmt = fmt,
                                           ![t].sends = IF outcome = "sent" THEN @ + 1 ELSE @]
               /\ UNCHANGED served
  /\ UNCHANGED <<dbVars, processing_queue, processing_workers_started, workers,
                 current_processing_user, requests, nsub, wpc, workerLocals, convVars,
                 storageNext, uploads, youtube_requests, twitter_requests, dbcalls, pollVars, nego, sessVars, toolVars>>

\* process_youtube_url / process_twitter_url returns the reference of the
\* upload or None, and the handler stores it: if storage_message_id: add_video.
ProcessReturns(t) ==
  /\ tasks[t].pc \in {"proc", "auto"}
  /\ \E ok \in BOOLEAN :
       LET ref == IF ok THEN storageNext ELSE 0
           key == CacheKey(tasks[t].url, tasks[t].fmt)
       IN /\ storageNext' = IF ok THEN storageNext + 1 ELSE storageNext
          /\ uploads' = IF ok THEN uploads \cup {<<key, ref>>} ELSE uploads
          /\ StoreResult(key, ref, tasks[t].url_type)
  /\ tasks' = [tasks EXCEPT ![t].pc = "done"]
  /\ UNCHANGED <<processing_queue, processing_workers_started, workers,
                 current_processing_user, requests, nsub, wpc, workerLocals, convVars,
                 served, youtube_requests, twitter_requests, dbcalls, pollVars, nego, sessVars, toolVars>>

Handlers ==
  \E t \in 1..Len(tasks) :
    \/ FormatMessage(t)
    \/ \E fmt \in Formats(tasks[t].url_type) : FormatCallback(t, fmt)
    \/ ProcessReturns(t)

NextFlows ==
  \/ HandleText
  \/ Worker
  \/ BotReply
  \/ HandleTextFormats
  \/ Handlers

SpecFlows == Init /\ [][NextFlows]_vars

\* ------------------------------------------- format menus and their buttons
\* Any user submits any url, and any user presses a button of any menu shown
\* (in a group chat the menu is visible to every member).

\* handle_text for a YouTube or Twitter url sent by any user.
SubmitUrl ==
  \E user \in Users, url \in Urls, url_type \in FlowTypes, sent_ok \in BOOLEAN :
    ShowFormats(user, url, url_type, sent_ok)

\* handle_*_format_callback for a press by callback_query.from_user.id =
\* presser on the menu of task t: the request stored under the presser gives
\* the url. Without a stored request the menu is replaced by the "session
\* expired" text and nothing is processed.
PressButton(t, presser, fmt) ==
  /\ tasks[t].pc = "menu"
  /\ LET url == StoredRequest(tasks[t].url_type, presser)
         key == CacheKey(url, fmt)
     IN IF url = "none"
          THEN /\ tasks' = [tasks EXCEPT ![t].pc = "done"]
               /\ UNCHANGED served
          ELSE IF get_video(videos, key) # 0
                 THEN /\ served' = served \cup {<<key, get_video(videos, key)>>}
                      /\ tasks' = [tasks EXCEPT ![t].pc = "done", ![t].url = url, ![t].fmt = fmt]
                 ELSE /\ \E outcome \in {"sent", "none"} :
                           tasks' = [tasks EXCEPT ![t].pc = IF outcome = "sent" THEN "proc" ELSE "done",
                                                  ![t].url = url, ![t].fmt = fmt,
                                                  ![t].sends = IF outcome = "sent" THEN @ + 1 ELSE @]
                      /\ UNCHANGED served
  /\ UNCHANGED <<dbVars, processing_queue, processing_workers_started, workers,
                 current_processing_user, requests, nsub, wpc, workerLocals, convVars,
                 storageNext, uploads, youtube_requests, twitter_requests, dbcalls, pollVars, nego, sessVars, toolVars>>

MenuHandlers ==
  \E t \in 1..Len(tasks) :
    \/ FormatMessage(t)
    \/ \E presser \in Users, fmt \in Formats(tasks[t].url_type) : PressButton(t, presser, fmt)
    \/ ProcessReturns(t)

NextMenu ==
  \/ SubmitUrl
  \/ MenuHandlers

SpecMenu == Init /\ [][NextMenu]_vars

\* ----------------------------------------------- add_video on its own
\* Calls of add_video with any key, reference and platform, at any time.
\* SQLite lets one writer in at a time: an INSERT that meets another writer
\* fails or waits, and the UNIQUE check sees every committed row, so a call
\* acts on the table in one step. A call that fails for any other reason
\* than the UNIQUE constraint is dbok = FALSE.
MaxCalls == 3
MaxClock == 2
DbKeys == {CacheKey("u1", NoFormat), CacheKey("u1", "mp3")}
DbRefs == {1, 2}
DbPlatforms == {"youtube", "twitter"}

AddVideoCall(key, ref, platform, dbok) ==
  /\ Len(dbcalls) < MaxCalls
  /\ videos' = add_video(videos, key, ref, platform, dbclock, dbok)
  /\ dbcalls' = Append(dbcalls,
       [url |-> key, channel_message_id |-> ref, platform |-> platform,
        timestamp |-> dbclock, dbok |-> dbok,
        returned |-> add_video_returns(videos, key, dbok)])
  /\ UNCHANGED <<dbclock, pipelineVars, flowVars, pollVars, nego, sessVars, toolVars>>

\* Time passes between calls.
DbTick ==
  /\ dbclock < MaxClock
  /\ dbclock' = dbclock + 1
  /\ UNCHANGED <<videos, pipelineVars, flowVars, dbcalls, pollVars, nego, sessVars, toolVars>>

NextDB ==
  \/ \E key \in DbKeys, ref \in DbRefs, platform \in DbPlatforms, dbok \in BOOLEAN :
       AddVideoCall(key, ref, platform, dbok)
  \/ DbTick

SpecDB == Init /\ [][NextDB]_vars

\* cleanup_old_records: DELETE FROM videos WHERE timestamp < now - days.
cleanup_old_records(table, now, days) ==
  SelectSeq(table, LAMBDA row : ~(row.timestamp < now - days))

\* The days a caller may pass (the default is 30).
CleanupDays == {0, 1}

\* A call of cleanup_old_records; a database error leaves the table alone.
CleanupOldRecords(days, dbok) ==
  /\ videos' = IF dbok THEN cleanup_old_records(videos, dbclock, days) ELSE videos
  /\ UNCHANGED <<dbclock, pipelineVars, flowVars, dbcalls, pollVars, nego, sessVars, toolVars>>

\* Every operation of the Database that writes the videos table.
NextDBAll ==
  \/ NextDB
  \/ \E days \in CleanupDays, dbok \in BOOLEAN : CleanupOldRecords(days, dbok)

SpecDBAll == Init /\ [][NextDBAll]_vars

\* ------------------------------------------------------ the wait functions
\* One conversation and one call of _wait_for_video_response,
\* _wait_for_twitter_response or _wait_for_format_message on it. The id of a
\* message is its position in the conversation. Time is counted in seconds
\* from the start of the call.
MaxChat == 4
MaxLatency == 2

\* What a message of the conversation is: the identity's own url message
\* ("sent") or a message of the responder. A link preview (MessageMediaWebPage)
\* may carry a photo, which Message.photo then returns.
Kinds == {"video", "photo", "audio", "text", "failtext", "webpage", "webpage_photo", "keyboard"}

is_video(kind) == kind = "video"
is_photo(kind) == kind \in {"photo", "webpage_photo"}
is_audio(kind) == kind = "audio"
is_webpage(kind) == kind \in {"webpage", "webpage_photo"}
has_data_button(kind) == kind = "keyboard"
has_media(kind) == kind \in {"video", "photo", "audio", "webpage", "webpage_photo"}
is_failure_text(kind) == kind = "failtext"

\* get_messages(bot_username, limit=...): the latest messages of the conversation.
video_limit == 10
twitter_limit == 20
format_limit == 10
get_messages(conv, limit) == {i \in 1..Len(conv) : i > Len(conv) - limit}

\* The pause between two polls of each function.
video_sleep == 3
poll_interval == 5
format_sleep == 2
Interval(fn) ==
  CASE fn = "video" -> video_sleep
    [] fn = "twitter" -> poll_interval
    [] OTHER -> format_sleep

\* The filter without the comparison with the sent message id.
any_message(id, sent_message_id) == TRUE

\* if message.id > sent_message_id
newer(id, sent_message_id) == id > sent_message_id

\* media_messages of _wait_for_video_response: from the YouTube responder only
\* video and audio count.
video_media(conv, bot, sent_message_id) ==
  {i \in get_messages(conv, video_limit) :
     /\ newer(i, sent_message_id)
     /\ IF bot = "youtube"
          THEN is_video(conv[i]) \/ is_audio(conv[i])
          ELSE is_video(conv[i]) \/ is_photo(conv[i]) \/ is_audio(conv[i])}

\* media_messages and text_messages of _wait_for_twitter_response.
twitter_media(conv, sent_message_id) ==
  {i \in get_messages(conv, twitter_limit) :
     /\ newer(i, sent_message_id)
     /\ ~is_webpage(conv[i])
     /\ (is_video(conv[i]) \/ is_photo(conv[i]))}

twitter_text(conv, sent_message_id) ==
  {i \in get_messages(conv, twitter_limit) :
     /\ newer(i, sent_message_id)
     /\ ~is_webpage(conv[i])
     /\ ~(is_video(conv[i]) \/ is_photo(conv[i]))
     /\ ~has_media(conv[i])
     /\ is_failure_text(conv[i])}

\* The messages _wait_for_format_message accepts.
format_messages(conv, sent_message_id) ==
  {i \in get_messages(conv, format_limit) :
     newer(i, sent_message_id) /\ has_data_button(conv[i])}

Max(ids) == CHOOSE i \in ids : \A j \in ids : j <= i

\* media_messages.sort(key=id); all of them, or media_messages[-1].
Chosen(ids, return_all) == IF return_all THEN ids ELSE {Max(ids)}

\* One poll: whether the function returns at this poll, and what.
PollOnce(fn, conv, bot, sent_message_id, return_all) ==
  CASE fn = "video" ->
         IF video_media(conv, bot, sent_message_id) # {}
           THEN [done |-> TRUE, why |-> "media",
                 ids |-> Chosen(video_media(conv, bot, sent_message_id), return_all)]
           ELSE [done |-> FALSE, why |-> "none", ids |-> {}]
    [] fn = "twitter" ->
         IF twitter_media(conv, sent_message_id) # {}
           THEN [done |-> TRUE, why |-> "media",
                 ids |-> Chosen(twitter_media(conv, sent_message_id), return_all)]
           ELSE IF twitter_text(conv, sent_message_id) # {}
             THEN [done |-> TRUE, why |-> "negative", ids |-> {}]
             ELSE [done |-> FALSE, why |-> "none", ids |-> {}]
    [] OTHER ->
         \* the first accepted message of the listing, which is newest first
         IF format_messages(conv, sent_message_id) # {}
           THEN [done |-> TRUE, why |-> "format",
                 ids |-> {Max(format_messages(conv, sent_message_id))}]
           ELSE [done |-> FALSE, why |-> "none", ids |-> {}]

\* The calls made: function, responder, max_wait_time, return_all.
WaitCalls ==
  {<<"video", "youtube", 8, FALSE>>, <<"video", "keepmedia", 3, TRUE>>,
   <<"video", "keepmedia", 8, FALSE>>, <<"twitter", "twitter", 8, TRUE>>,
   <<"video", "facebook", 3, TRUE>>,
   <<"twitter", "twitter", 3, FALSE>>, <<"format", "youtube", 3, FALSE>>,
   <<"format", "twitter", 8, FALSE>>}

\* The responder (or an earlier exchange) adds a message to the conversation,
\* before, during or after a call of a wait function.
ResponderPosts(kind) ==
  /\ Len(chat) < MaxChat
  /\ chat' = Append(chat, kind)
  /\ UNCHANGED <<pw, dbVars, pipelineVars, flowVars, dbcalls, nego, sessVars, toolVars>>

\* The caller sends the url and calls the wait function with the id of the
\* message it sent.
WaitStart(call) ==
  /\ pw.pc = "idle"
  /\ Len(chat) < MaxChat
  /\ chat' = Append(chat, "sent")
  /\ pw' = [pc |-> "wait", fn |-> call[1], bot |-> call[2], max_wait_time |-> call[3],
            return_all |-> call[4], sent_message_id |-> Len(chat) + 1,
            elapsed |-> 0, why |-> "none", ids |-> {}, raised |-> FALSE,
            allfailed |-> TRUE, seen |-> 0]
  /\ UNCHANGED <<dbVars, pipelineVars, flowVars, dbcalls, nego, sessVars, toolVars>>

\* One turn of the loop where an exception of the listing leaves the function.
WaitPollRaises(latency, fails) ==
  /\ pw.pc = "wait"
  /\ IF pw.elapsed >= pw.max_wait_time
       THEN pw' = [pw EXCEPT !.pc = "returned", !.why = "timeout"]
       ELSE IF fails
         THEN pw' = [pw EXCEPT !.pc = "returned", !.raised = TRUE,
                               !.elapsed = @ + latency]
         ELSE LET r == PollOnce(pw.fn, chat, pw.bot, pw.sent_message_id, pw.return_all)
              IN IF r.done
                   THEN pw' = [pw EXCEPT !.pc = "returned", !.why = r.why, !.ids = r.ids,
                                         !.elapsed = @ + latency, !.allfailed = FALSE,
                                         !.seen = Len(chat)]
                   ELSE pw' = [pw EXCEPT !.elapsed = @ + latency + Interval(pw.fn),
                                         !.allfailed = FALSE, !.seen = Len(chat)]
  /\ UNCHANGED <<chat, dbVars, pipelineVars, flowVars, dbcalls, nego, sessVars, toolVars>>

\* One turn of the loop: the time test, the listing (which takes latency
\* seconds and may raise; the exception is caught and logged), the scan, and
\* the pause when nothing was returned.
WaitPoll(latency, fails) ==
  /\ pw.pc = "wait"
  /\ IF pw.elapsed >= pw.max_wait_time
       THEN pw' = [pw EXCEPT !.pc = "returned", !.why = "timeout"]
       ELSE LET r == PollOnce(pw.fn, chat, pw.bot, pw.sent_message_id, pw.return_all)
            IN IF ~fails /\ r.done
                 THEN pw' = [pw EXCEPT !.pc = "returned", !.why = r.why, !.ids = r.ids,
                                       !.elapsed = @ + latency, !.allfailed = FALSE,
                                       !.seen = Len(chat)]
                 ELSE pw' = [pw EXCEPT !.elapsed = @ + latency + Interval(pw.fn),
                                       !.allfailed = (@ /\ fails),
                                       !.seen = IF fails THEN @ ELSE Len(chat)]
  /\ UNCHANGED <<chat, dbVars, pipelineVars, flowVars, dbcalls, nego, sessVars, toolVars>>

\* The choice process_facebook_url and process_twitter_url make in the list
\* the wait returned: the newest video if there is one, else the newest item.
chosen_message(conv, ids) ==
  IF \E i \in ids : is_video(conv[i])
    THEN Max({i \in ids : is_video(conv[i])})
    ELSE Max(ids)

\* The message a caller uploads: process_youtube_url and process_tiktok_url
\* upload the one message the wait returned.
UploadChoice(w, conv) ==
  IF w.return_all /\ w.bot \in {"facebook", "twitter"}
    THEN chosen_message(conv, w.ids)
    ELSE Max(w.ids)

NextPoll ==
  \/ \E kind \in Kinds : ResponderPosts(kind)
  \/ \E call \in WaitCalls : WaitStart(call)
  \/ \E latency \in 0..MaxLatency, fails \in BOOLEAN : WaitPoll(latency, fails)

SpecPoll ==
  /\ Init
  /\ [][NextPoll]_vars

\* -------------------------------------------------- the format negotiation
\* One format request on the conversation. show_*_formats sends the url, waits
\* for the responder's format message and stores it under the user; the token
\* is taken from the stored message; process_*_url then sends the url again,
\* waits for a format message above this second send and clicks the token on
\* the message this wait returns.

\* show_*_formats: the url is sent.
ShowSend ==
  /\ nego.pc = "idle"
  /\ Len(chat) < MaxChat
  /\ chat' = Append(chat, "sent")
  /\ nego' = [nego EXCEPT !.pc = "show_wait", !.sent_message_id = Len(chat) + 1]
  /\ UNCHANGED <<pw, dbVars, pipelineVars, flowVars, dbcalls, sessVars, toolVars>>

\* _wait_for_format_message returns: the message is stored with the url, or
\* the wait timed out.
ShowFormatMessage ==
  /\ nego.pc = "show_wait"
  /\ IF format_messages(chat, nego.sent_message_id) # {}
       THEN nego' = [nego EXCEPT !.pc = "menu",
                       !.format_message = Max(format_messages(chat, nego.sent_message_id))]
       ELSE nego' = [nego EXCEPT !.pc = "done"]
  /\ UNCHANGED <<chat, pw, dbVars, pipelineVars, flowVars, dbcalls, sessVars, toolVars>>

\* The button is pressed: the callback data comes from the stored message and
\* process_*_url(url, callback_data) sends the url again.
ProcessSend ==
  /\ nego.pc = "menu"
  /\ Len(chat) < MaxChat
  /\ chat' = Append(chat, "sent")
  /\ nego' = [nego EXCEPT !.pc = "proc_wait", !.sent_message_id = Len(chat) + 1]
  /\ UNCHANGED <<pw, dbVars, pipelineVars, flowVars, dbcalls, sessVars, toolVars>>

\* process_*_url: the wait for a format message above its own send, then
\* _click_inline_button on the message found, which clicks when that message
\* has a button with the same data.
ProcessClick(same_data) ==
  /\ nego.pc = "proc_wait"
  /\ IF format_messages(chat, nego.sent_message_id) # {} /\ same_data
       THEN nego' = [nego EXCEPT !.pc = "done",
                       !.clicked = Max(format_messages(chat, nego.sent_message_id))]
       ELSE nego' = [nego EXCEPT !.pc = "done"]
  /\ UNCHANGED <<chat, pw, dbVars, pipelineVars, flowVars, dbcalls, sessVars, toolVars>>

NextNego ==
  \/ \E kind \in Kinds : ResponderPosts(kind)
  \/ ShowSend
  \/ ShowFormatMessage
  \/ ProcessSend
  \/ \E same_data \in BOOLEAN : ProcessClick(same_data)

SpecNego == Init /\ [][NextNego]_vars

\* ------------------------------------------------------------ the session
\* Calls on the shared Telethon session, one after the other: the five
\* process_*_url methods and the send-and-wait of show_*_formats. A call is
\* followed through its network steps; any of them may raise
\* AuthKeyDuplicatedError ("conflict"), FloodWaitError ("flood") or another
\* exception ("error"). History is kept in job: the faults and recoveries of
\* the call, the calls made to the responder, and across calls the conflict
\* faults in a row without a successful call between (consec), whether a
\* recovery found the session not authorized (lost).
MaxJobs == 3
MaxFlood == 2
ProcessFlows == {"instagram", "tiktok", "facebook", "youtube", "twitter"}
ShowFlows == {"show_youtube", "show_twitter"}

IdleJob ==
  [pc |-> "idle", flow |-> "none", attempt |-> 0, retried |-> FALSE,
   responder_calls |-> 0, recoveries |-> 0, faults |-> 0,
   flooded |-> FALSE, flood_seconds |-> 0, returned_wait |-> 0, after_flood |-> 0,
   result |-> "none", auth_at_start |-> TRUE, consec_at_start |-> 0,
   recovered_at_start |-> 0, njobs |-> 0, consec |-> 0, recovered |-> 0, lost |-> FALSE]

\* After a poll without media or an exception: the Instagram loop has another
\* attempt, every other flow returns None.
NextAfterFailure(flow, n) ==
  IF flow = "instagram" /\ n + 1 < max_retries THEN "send" ELSE "done"

\* The except clauses when FloodWaitError is handled like any other exception.
after_exception_retries_flood(flow, n, exc, retried) ==
  IF exc = "conflict" /\ flow = "facebook" /\ ~retried
    THEN "recover"
    ELSE NextAfterFailure(flow, n)

\* The except clauses of process_*_url: where the call goes after a send
\* raised. FloodWaitError returns None at once; AuthKeyDuplicatedError leads to
\* _recover_session in process_facebook_url only, and there only outside the
\* retry that follows a recovery.
after_exception(flow, n, exc, retried) ==
  IF exc = "flood" THEN "done"
  ELSE IF exc = "conflict" /\ flow = "facebook" /\ ~retried THEN "recover"
  ELSE NextAfterFailure(flow, n)

\* is_authenticated after a recovery found the session never authorized.
after_recovery_unauthorized(auth, authorized) == FALSE

\* _recover_session: is_authenticated is cleared when the session is no longer
\* authorized, and left alone otherwise.
after_recovery(auth, authorized) == IF authorized THEN auth ELSE FALSE

\* The value a call returns on failure: None, or an exception of
\* show_youtube_formats, which has no try around its send.
Failure(flow) == IF flow = "show_youtube" THEN "raised" ELSE "failed"

\* A call goes to pc: the next attempt, the recovery, or its end in failure.
Goto(j, target) ==
  CASE target = "send" -> [j EXCEPT !.pc = "send", !.attempt = @ + 1]
    [] target = "recover" -> [j EXCEPT !.pc = "recover"]
    [] OTHER -> [j EXCEPT !.pc = "done", !.result = Failure(j.flow)]

\* A call begins. process_*_url returns None at once when is_authenticated is
\* false; show_*_formats does not look at it.
JobStart(flow) ==
  /\ job.pc \in {"idle", "done"}
  /\ job.njobs < MaxJobs
  /\ LET j == [IdleJob EXCEPT !.flow = flow, !.njobs = job.njobs + 1,
                 !.consec = job.consec, !.recovered = job.recovered, !.lost = job.lost,
                 !.auth_at_start = is_authenticated, !.consec_at_start = job.consec,
                 !.recovered_at_start = job.recovered]
     IN job' = IF flow \in ProcessFlows /\ ~is_authenticated
                 THEN [j EXCEPT !.pc = "done", !.result = "unauthenticated"]
                 ELSE [j EXCEPT !.pc = "send"]
  /\ UNCHANGED <<is_authenticated, dbVars, pipelineVars, flowVars, dbcalls, pollVars, nego, toolVars>>

Min2(a, b) == IF a < b THEN a ELSE b

\* client.send_message(responder, url), with the priming message before it.
JobSend(outcome, seconds) ==
  /\ job.pc = "send"
  /\ LET sent == [job EXCEPT !.responder_calls = @ + 1,
                             !.after_flood = IF job.flooded THEN @ + 1 ELSE @]
     IN job' =
          CASE outcome = "ok" -> [sent EXCEPT !.pc = "poll"]
            [] outcome = "flood" ->
                 Goto([sent EXCEPT !.flooded = TRUE, !.flood_seconds = seconds],
                      after_exception(job.flow, job.attempt, "flood", job.retried))
            [] outcome = "conflict" ->
                 Goto([sent EXCEPT !.faults = @ + 1, !.consec = Min2(@ + 1, 2)],
                      after_exception(job.flow, job.attempt, "conflict", job.retried))
            [] OTHER ->
                 Goto(sent, after_exception(job.flow, job.attempt, "error", job.retried))
  /\ UNCHANGED <<is_authenticated, dbVars, pipelineVars, flowVars, dbcalls, pollVars, nego, toolVars>>

\* The wait for the responder's answer. Exceptions of the listing are caught
\* inside the wait function, an AuthKeyDuplicatedError among them.
JobPoll(outcome) ==
  /\ job.pc = "poll"
  /\ LET polled == [job EXCEPT !.responder_calls = @ + 1,
                               !.after_flood = IF job.flooded THEN @ + 1 ELSE @]
     IN job' =
          CASE outcome = "found" ->
                 IF job.flow \in ShowFlows
                   THEN [polled EXCEPT !.pc = "done", !.result = "ok", !.consec = 0]
                   ELSE [polled EXCEPT !.pc = "upload"]
            [] outcome = "conflict" ->
                 Goto([polled EXCEPT !.faults = @ + 1, !.consec = Min2(@ + 1, 2)],
                      NextAfterFailure(job.flow, job.attempt))
            [] OTHER -> Goto(polled, NextAfterFailure(job.flow, job.attempt))
  /\ UNCHANGED <<is_authenticated, dbVars, pipelineVars, flowVars, dbcalls, pollVars, nego, toolVars>>

\* The upload to the storage channel; a failure returns None, without retry.
JobUpload(ok) ==
  /\ job.pc = "upload"
  /\ job' = IF ok THEN [job EXCEPT !.pc = "done", !.result = "ok", !.consec = 0]
                  ELSE Goto(job, "done")
  /\ UNCHANGED <<is_authenticated, dbVars, pipelineVars, flowVars, dbcalls, pollVars, nego, toolVars>>

\* _recover_session in process_facebook_url: disconnect, pause, connect,
\* is_user_authorized. Whatever the answer the url is then sent again; only an
\* exception of the reconnect ends the call.
JobRecover(outcome) ==
  /\ job.pc = "recover"
  /\ IF outcome = "raises"
       THEN /\ job' = Goto([job EXCEPT !.recoveries = @ + 1], "done")
            /\ UNCHANGED is_authenticated
       ELSE /\ is_authenticated' = after_recovery(is_authenticated, outcome = "authorized")
            /\ job' = [job EXCEPT !.recoveries = @ + 1, !.pc = "send", !.retried = TRUE,
                                  !.recovered = IF outcome = "authorized" THEN Min2(@ + 1, 1) ELSE @,
                                  !.lost = (@ \/ outcome # "authorized")]
  /\ UNCHANGED <<dbVars, pipelineVars, flowVars, dbcalls, pollVars, nego, toolVars>>

NextSession ==
  \/ \E flow \in ProcessFlows \cup ShowFlows : JobStart(flow)
  \/ \E outcome \in {"ok", "flood", "conflict", "error"}, seconds \in 1..MaxFlood :
       JobSend(outcome, seconds)
  \/ \E outcome \in {"found", "none", "conflict"} : JobPoll(outcome)
  \/ \E ok \in BOOLEAN : JobUpload(ok)
  \/ \E outcome \in {"authorized", "unauthorized", "raises"} : JobRecover(outcome)

SpecSession == Init /\ [][NextSession]_vars

\* ------------------------------------------------- the format negotiator
\* find_matching_format_callback(format_message, desired_format). A text is
\* the sequence of its characters. The buttons of the keyboard are taken in
\* row-major order; the callback data of a button stands for itself as the
\* position of the button, None is 0. A button may have no data (a url button).
MaxButtons == 3

None == 0

Str360 == <<"3", "6", "0">>
Str480 == <<"4", "8", "0">>
Str720 == <<"7", "2", "0">>
Str360p == <<"3", "6", "0", "p">>
Str480p == <<"4", "8", "0", "p">>
Str720p == <<"7", "2", "0", "p">>
Str500p == <<"5", "0", "0", "p">>
Str1080p == <<"1", "0", "8", "0", "p">>
Str240p == <<"2", "4", "0", "p">>
Strhd == <<"h", "d">>
StrHD == <<"H", "D">>
Strmp3 == <<"m", "p", "3">>
StrMP3 == <<"M", "P", "3">>
Straudio == <<"a", "u", "d", "i", "o">>
StrAudio == <<"A", "u", "d", "i", "o">>
StrBest == <<"B", "e", "s", "t">>
Strzvuk == <<"cyr_ze", "cyr_ve", "cyr_u", "cyr_ka">>
Straudio_cyr == <<"cyr_a", "cyr_u", "cyr_de", "cyr_i", "cyr_o">>

\* The button texts a keyboard is made of, and the formats asked for.
Labels == {Str360, Str480, Str720, StrHD, Str1080p, StrMP3, StrAudio, StrBest, Str240p}
DesiredFormats == {Str360p, Str480p, Str720p, Strmp3, Str500p, Str1080p}
Keyboards ==
  UNION {[1..n -> [text : Labels, has_data : BOOLEAN]] : n \in 0..MaxButtons}

\* str.lower()
LowerChar(c) ==
  CASE c = "A" -> "a" [] c = "B" -> "b" [] c = "D" -> "d" [] c = "H" -> "h"
    [] c = "M" -> "m" [] c = "P" -> "p" [] OTHER -> c
lower(text) == [i \in DOMAIN text |-> LowerChar(text[i])]

\* pattern in text
Contains(text, pattern) ==
  \E i \in 0..(Len(text) - Len(pattern)) : SubSeq(text, i + 1, i + Len(pattern)) = pattern

IsDigit(c) == c \in {"0", "1", "2", "3", "4", "5", "6", "7", "8", "9"}
DigitVal(c) ==
  CASE c = "0" -> 0 [] c = "1" -> 1 [] c = "2" -> 2 [] c = "3" -> 3 [] c = "4" -> 4
    [] c = "5" -> 5 [] c = "6" -> 6 [] c = "7" -> 7 [] c = "8" -> 8 [] OTHER -> 9

RECURSIVE IntOf(_)
IntOf(digits) ==
  IF digits = <<>> THEN 0
  ELSE 10 * IntOf(SubSeq(digits, 1, Len(digits) - 1)) + DigitVal(digits[Len(digits)])

\* int(desired_format.replace('p', '')); -1 stands for the ValueError.
target_res(desired_format) ==
  LET rest == SelectSeq(desired_format, LAMBDA c : c # "p")
  IN IF rest # <<>> /\ \A i \in DOMAIN rest : IsDigit(rest[i]) THEN IntOf(rest) ELSE -1

\* re.search(r'(\d{3,4})p?', button_text), group 1 as an integer: the leftmost
\* run of three digits, with a fourth digit when one follows; -1 for no match.
res_match(text) ==
  LET starts == {i \in 1..(Len(text) - 2) :
                   IsDigit(text[i]) /\ IsDigit(text[i + 1]) /\ IsDigit(text[i + 2])}
  IN IF starts = {} THEN -1
     ELSE LET i == CHOOSE k \in starts : \A j \in starts : k <= j
              n == IF i + 3 <= Len(text) /\ IsDigit(text[i + 3]) THEN 4 ELSE 3
          IN IntOf(SubSeq(text, i, i + n - 1))

\* One keyword table for every format.
format_patterns_merged(desired_format) ==
  {Str360, Str360p, Str480, Str480p, Str720, Str720p, Strhd, Strmp3, Straudio, Strzvuk}

\* format_patterns.get(desired_format.lower(), [])
format_patterns(desired_format) ==
  CASE lower(desired_format) = Str360p -> {Str360, Str360p}
    [] lower(desired_format) = Str480p -> {Str480, Str480p}
    [] lower(desired_format) = Str720p -> {Str720, Str720p, Strhd}
    [] lower(desired_format) = Strmp3 -> {Strmp3, Straudio, Strzvuk}
    [] OTHER -> {}

\* The words of the MP3 fallback.
audio_words == {Straudio_cyr, Straudio, Strzvuk, Strmp3}

\* The button text as written, not lowered.
button_text_as_written(text) == text

\* button_text = button.text.lower()
button_text(text) == lower(text)

\* The buttons the loops look at: those with data.
DataButtons(buttons) == {i \in DOMAIN buttons : buttons[i].has_data}

First(ids) == CHOOSE i \in ids : \A j \in ids : i <= j

\* The first loop: the first button whose text contains a pattern.
pattern_matches(buttons, desired_format) ==
  {i \in DataButtons(buttons) :
     \E pattern \in format_patterns(desired_format) :
        Contains(button_text(buttons[i].text), lower(pattern))}

\* The MP3 fallback loop.
audio_matches(buttons) ==
  {i \in DataButtons(buttons) :
     \E word \in audio_words : Contains(button_text(buttons[i].text), word)}

Abs(x) == IF x < 0 THEN -x ELSE x

\* The closest-resolution loop: diff < closest_diff keeps the first of equals.
closest_button(buttons, target) ==
  LET numbered == {i \in DataButtons(buttons) : res_match(button_text(buttons[i].text)) # -1}
      diff(i) == Abs(res_match(button_text(buttons[i].text)) - target)
  IN IF numbered = {} THEN None
     ELSE First({i \in numbered : \A j \in numbered : diff(i) <= diff(j)})

\* A result made up when nothing matched: the first button of a keyboard.
first_button(buttons) == 1

\* logger.warning("No matching format found"); return None
no_match(buttons) == None

find_matching_format_callback(buttons, desired_format) ==
  IF format_patterns(desired_format) = {} THEN None
  ELSE IF pattern_matches(buttons, desired_format) # {}
    THEN First(pattern_matches(buttons, desired_format))
  ELSE IF lower(desired_format) = Strmp3
    THEN IF audio_matches(buttons) # {} THEN First(audio_matches(buttons))
                                       ELSE no_match(buttons)
  ELSE IF target_res(desired_format) = -1 THEN None
  ELSE IF closest_button(buttons, target_res(desired_format)) # None
    THEN closest_button(buttons, target_res(desired_format))
  ELSE no_match(buttons)

\* One call of the function.
FindCall(buttons, desired_format) ==
  /\ sel.pc = "idle"
  /\ sel' = [pc |-> "returned", buttons |-> buttons, desired_format |-> desired_format,
             result |-> find_matching_format_callback(buttons, desired_format)]
  /\ UNCHANGED <<grp, cap, tw, dbVars, pipelineVars, flowVars, dbcalls, pollVars, nego, sessVars>>

NextSelect ==
  /\ sel.pc = "idle"
  /\ \E buttons \in Keyboards, desired_format \in DesiredFormats :
        FindCall(buttons, desired_format)

SpecSelect == Init /\ [][NextSelect]_vars

\* ------------------------------------------------------ the grouped upload
\* _upload_media_group_to_storage_channel(media_messages): the list is given
\* by its length and the number of its messages that have media. sent is the
\* number of items handed to send_file, warned whether a warning was logged
\* for items left out, next the next message id of the storage channel.
MaxItems == 12
MaxUploads == 2

UploadGroup(messages, with_media, ok) ==
  /\ grp.calls < MaxUploads
  /\ LET media_files == Min(with_media, MaxGroup)
     IN grp' =
          IF with_media = 0
            THEN [grp EXCEPT !.pc = "done", !.messages = messages, !.with_media = with_media,
                             !.sent = 0, !.warned = FALSE, !.result = None,
                             !.calls = @ + 1]
          ELSE IF ok
            THEN [grp EXCEPT !.pc = "done", !.messages = messages, !.with_media = with_media,
                             !.sent = media_files, !.warned = FALSE,
                             !.result = last_id(grp.next, media_files),
                             !.next = @ + media_files, !.calls = @ + 1]
            ELSE [grp EXCEPT !.pc = "done", !.messages = messages, !.with_media = with_media,
                             !.sent = media_files, !.warned = FALSE, !.result = None,
                             !.calls = @ + 1]
  /\ UNCHANGED <<sel, cap, tw, dbVars, pipelineVars, flowVars, dbcalls, pollVars, nego, sessVars>>

NextUpload ==
  \E messages \in 0..MaxItems, ok \in BOOLEAN :
     \E with_media \in 0..messages : UploadGroup(messages, with_media, ok)

SpecUpload == Init /\ [][NextUpload]_vars

\* ------------------------------------------------------- the caption
\* _modify_twitter_caption(original_caption). A caption is the sequence of
\* its characters, "nl" the line feed; the attribution text is one unit.
MaxCaption == 4
CaptionChars == {"x", "@", "B", "y", "v", "i", "a", " ", "nl"}
Captions == UNION {[1..n -> CaptionChars] : n \in 0..MaxCaption}
Attribution == <<"attribution">>

\* str.split('\n')
RECURSIVE split(_)
split(text) ==
  IF \A i \in DOMAIN text : text[i] # "nl" THEN <<text>>
  ELSE LET i == CHOOSE k \in DOMAIN text :
                  text[k] = "nl" /\ \A j \in 1..(k - 1) : text[j] # "nl"
       IN <<SubSeq(text, 1, i - 1)>> \o split(SubSeq(text, i + 1, Len(text)))

\* '\n'.join(lines)
RECURSIVE join(_)
join(lines) ==
  IF Len(lines) = 0 THEN <<>>
  ELSE IF Len(lines) = 1 THEN lines[1]
  ELSE lines[1] \o <<"nl">> \o join(Tail(lines))

\* str.strip()
RECURSIVE strip(_)
strip(line) ==
  IF line # <<>> /\ Head(line) = " " THEN strip(Tail(line))
  ELSE IF line # <<>> /\ line[Len(line)] = " " THEN strip(SubSeq(line, 1, Len(line) - 1))
  ELSE line

\* No last line is taken for a byline.
never_byline(last_line) == FALSE

\* '@' in last_line or 'via' in last_line.lower() or 'by' in last_line.lower()
is_byline(last_line) ==
  \/ Contains(last_line, <<"@">>)
  \/ Contains(lower(last_line), <<"v", "i", "a">>)
  \/ Contains(lower(last_line), <<"b", "y">>)

modify_twitter_caption(original_caption) ==
  IF original_caption = <<>> THEN Attribution
  ELSE LET lines == split(original_caption)
           last_line == strip(lines[Len(lines)])
       IN IF is_byline(last_line)
            THEN join(SubSeq(lines, 1, Len(lines) - 1) \o <<(<<"nl">> \o Attribution)>>)
            ELSE join(lines \o <<(<<"nl">> \o Attribution)>>)

\* One call of the function.
ModifyCaption(original_caption) ==
  /\ cap.pc = "idle"
  /\ cap' = [pc |-> "returned", original_caption |-> original_caption,
             result |-> modify_twitter_caption(original_caption)]
  /\ UNCHANGED <<sel, grp, tw, dbVars, pipelineVars, flowVars, dbcalls, pollVars, nego, sessVars>>

NextCaption ==
  /\ cap.pc = "idle"
  /\ \E original_caption \in Captions : ModifyCaption(original_caption)

SpecCaption == Init /\ [][NextCaption]_vars

\* ------------------------------------------------- process_twitter_url
\* One call of process_twitter_url(url, callback_data, max_wait_time,
\* pre_sent_message_id) on the conversation chat; pre_sent_message_id None is
\* 0. sends counts the messages the call sends to the responder; the two
\* watermarks are the ids the call hands to the format wait and the media wait.

\* The url is sent whatever pre_sent_message_id is.
always_resend(pre_sent_message_id) == TRUE

\* if pre_sent_message_id is not None: reuse it, else send the url
resend(pre_sent_message_id) == pre_sent_message_id = None

\* show_twitter_formats sends the url, or an earlier exchange did.
TwitterUrlSent ==
  /\ tw.pc = "idle"
  /\ Len(chat) < MaxChat
  /\ chat' = Append(chat, "sent")
  /\ UNCHANGED <<pw, tw, sel, grp, cap, dbVars, pipelineVars, flowVars, dbcalls, nego, sessVars>>

TwitterStart(pre_sent_message_id, callback_data) ==
  /\ tw.pc = "idle"
  /\ pre_sent_message_id # None =>
       (pre_sent_message_id \in 1..Len(chat) /\ chat[pre_sent_message_id] = "sent")
  /\ IF ~is_authenticated
       THEN /\ tw' = [tw EXCEPT !.pc = "done", !.result = "failed",
                                !.pre_sent_message_id = pre_sent_message_id,
                                !.callback_data = callback_data]
            /\ UNCHANGED chat
       ELSE IF resend(pre_sent_message_id)
         THEN /\ Len(chat) < MaxChat
              /\ chat' = Append(chat, "sent")
              /\ tw' = [tw EXCEPT !.pc = IF callback_data THEN "format" ELSE "media",
                                  !.pre_sent_message_id = pre_sent_message_id,
                                  !.callback_data = callback_data,
                                  !.sent_message_id = Len(chat) + 1, !.sends = @ + 1]
         ELSE /\ UNCHANGED chat
              /\ tw' = [tw EXCEPT !.pc = IF callback_data THEN "format" ELSE "media",
                                  !.pre_sent_message_id = pre_sent_message_id,
                                  !.callback_data = callback_data,
                                  !.sent_message_id = pre_sent_message_id]
  /\ UNCHANGED <<pw, sel, grp, cap, dbVars, pipelineVars, flowVars, dbcalls, nego, sessVars>>

\* _wait_for_format_message(bot, sent_message_id, 60) and the click: the wait
\* finds a keyboard above the id it was given, or runs out of time.
TwitterFormat(timeout, clicked) ==
  /\ tw.pc = "format"
  /\ LET r == PollOnce("format", chat, "twitter", tw.sent_message_id, FALSE)
     IN /\ timeout \/ r.done
        /\ tw' = IF timeout \/ ~clicked
                   THEN [tw EXCEPT !.pc = "done", !.result = "failed",
                                   !.format_watermark = tw.sent_message_id]
                   ELSE [tw EXCEPT !.pc = "media", !.format_watermark = tw.sent_message_id]
  /\ UNCHANGED <<chat, pw, sel, grp, cap, dbVars, pipelineVars, flowVars, dbcalls, nego, sessVars>>

\* _wait_for_twitter_response(bot, sent_message_id, max_wait_time,
\* return_all=True), the choice of the message and its upload.
TwitterMedia(timeout, uploaded) ==
  /\ tw.pc = "media"
  /\ LET r == PollOnce("twitter", chat, "twitter", tw.sent_message_id, TRUE)
     IN /\ timeout \/ r.done
        /\ tw' = IF timeout \/ r.ids = {} \/ ~uploaded
                   THEN [tw EXCEPT !.pc = "done", !.result = "failed",
                                   !.media_watermark = tw.sent_message_id]
                   ELSE [tw EXCEPT !.pc = "done", !.result = "ok", !.media = r.ids,
                                   !.media_watermark = tw.sent_message_id]
  /\ UNCHANGED <<chat, pw, sel, grp, cap, dbVars, pipelineVars, flowVars, dbcalls, nego, sessVars>>

NextTwitter ==
  \/ \E kind \in Kinds : ResponderPosts(kind)
  \/ TwitterUrlSent
  \/ \E pre_sent_message_id \in 0..MaxChat, callback_data \in BOOLEAN :
       TwitterStart(pre_sent_message_id, callback_data)
  \/ \E timeout \in BOOLEAN, clicked \in BOOLEAN : TwitterFormat(timeout, clicked)
  \/ \E timeout \in BOOLEAN, uploaded \in BOOLEAN : TwitterMedia(timeout, uploaded)

SpecTwitter == Init /\ [][NextTwitter]_vars

\* ================================================================ claims
Jobs == 1..Len(requests)

\* C2: every media message a poll accepts was sent by the responder in answer
\* to the request being processed (never to an earlier request of the same
\* conversation).
C2_AcceptedAnswersOwnRequest ==
  \A m \in got : m.ans = wreq

\* C3: every request that was dequeued and that the worker has left behind is
\* resolved: its completed event is set, on every path.
C3_EveryJobResolved ==
  \A r \in Jobs : Handled(r) => requests[r].completed

\* C4: jobs are dequeued and completed in submission order: of two submitted
\* jobs the later one is never dequeued or resolved before the earlier one.
C4_FifoResolution ==
  \A i, j \in Jobs :
    i < j => /\ (~InQueue(j) => ~InQueue(i))
             /\ (requests[j].completed => requests[i].completed)

\* C5: when the first message of a job B is sent to the responder, every job A
\* submitted before B for the same responder is fully resolved (completed set).
C5_ResolvedBeforeNextBegins ==
  \A a, b \in Jobs :
    (a < b /\ BotOf(requests[a].url_type) = BotOf(requests[b].url_type)
           /\ requests[b].sends > 0)
      => requests[a].completed

\* C6: a fault raised while a job is processed becomes that job's failure
\* result (request.error), the worker task never ends, and every job queued
\* later is still dequeued and processed to the end.
C6_WorkerContinues ==
  /\ [](wpc # "dead")
  /\ [](\A r \in Jobs : (Handled(r) /\ ~requests[r].completed) => requests[r].error)
  /\ \A r \in 1..MaxReq : InQueue(r) ~> Handled(r)

\* C6 witness: a job ended in a fault and a job queued after it was processed
\* to its end.
C6_Witness ==
  \E i, j \in Jobs :
    /\ i < j
    /\ requests[i].error
    /\ Handled(j)
    /\ requests[j].completed

InFlightTasks == {t \in 1..Len(tasks) : tasks[t].pc \in {"show_wait", "proc", "auto"}}
WorkerInFlight == wpc \in {"poll", "upload"}

\* C1: at any time at most one responder interaction is in flight, counting
\* the worker's process call and the send-and-wait and process calls of the
\* YouTube and Twitter handlers.
C1_OneInteractionInFlight ==
  Cardinality(InFlightTasks) + (IF WorkerInFlight THEN 1 ELSE 0) <= 1

\* C7: every row of the videos table holds a reference that an upload made for
\* the row's key returned, in the queued flow and in both format flows.
C7_RowsComeFromUploads ==
  \A i \in 1..Len(videos) : <<videos[i].url, videos[i].channel_message_id>> \in uploads

\* C7 witness: a row written by the worker and a row written by a format
\* handler, each after its upload.
C7_Witness ==
  \E i, j \in 1..Len(videos) :
    /\ videos[i].platform \in QueueTypes
    /\ videos[j].platform \in FlowTypes
    /\ <<videos[i].url, videos[i].channel_message_id>> \in uploads
    /\ <<videos[j].url, videos[j].channel_message_id>> \in uploads

\* C8: a submission whose (url, format) key had a row when it was submitted is
\* answered from the cache with no message sent to a responder, format
\* requests included.
C8_CachedAnsweredWithoutResponder ==
  \A t \in 1..Len(tasks) :
    tasks[t].fmt \in tasks[t].cached_formats => tasks[t].sends = 0

\* The add_video calls for a key that returned True, in call order.
Inserted(key) == {c \in 1..Len(dbcalls) : dbcalls[c].url = key /\ dbcalls[c].returned}
FirstInserted(key) == CHOOSE c \in Inserted(key) : \A d \in Inserted(key) : c <= d

\* C10: add_video is first-writer-wins. A key has a row exactly when a call for
\* it returned True, it has one row, the row holds the reference, platform and
\* timestamp of the first such call, and every later call for the key returns
\* False.
C10_FirstWriterWins ==
  \A key \in DbKeys :
    /\ Cardinality(RowsOf(videos, key)) <= 1
    /\ Cardinality(Inserted(key)) <= 1
    /\ (RowsOf(videos, key) # {}) <=> (Inserted(key) # {})
    /\ \A i \in RowsOf(videos, key) :
         /\ videos[i].channel_message_id = dbcalls[FirstInserted(key)].channel_message_id
         /\ videos[i].platform = dbcalls[FirstInserted(key)].platform
         /\ videos[i].timestamp = dbcalls[FirstInserted(key)].timestamp

\* C10 witness: after a first insert, a later call for the same key with another
\* reference, platform and time, and no database error, returned False and the
\* row still holds the first reference.
C10_Witness ==
  \E c, d \in 1..Len(dbcalls) :
    /\ c < d
    /\ dbcalls[c].url = dbcalls[d].url
    /\ dbcalls[c].returned
    /\ dbcalls[d].dbok /\ ~dbcalls[d].returned
    /\ dbcalls[d].channel_message_id # dbcalls[c].channel_message_id
    /\ dbcalls[d].platform # dbcalls[c].platform
    /\ dbcalls[d].timestamp # dbcalls[c].timestamp
    /\ get_video(videos, dbcalls[c].url) = dbcalls[c].channel_message_id

\* C11: cache entries are permanent and immutable: once get_video returns a
\* reference for a key, it returns the same reference after every step of
\* every operation of the Database.
C11_EntriesPermanent ==
  [][\A key \in DbKeys :
       get_video(videos, key) # 0 => get_video(videos', key) = get_video(videos, key)]_vars

\* C12: a wait function returns only messages with an id above the
\* sent_message_id it was given, and that id is the id of a message the
\* identity had sent before the first poll.
C12_OnlyAboveWatermark ==
  pw.pc # "idle" =>
    /\ pw.sent_message_id \in 1..Len(chat)
    /\ chat[pw.sent_message_id] = "sent"
    /\ \A i \in pw.ids : i \in 1..Len(chat) /\ i > pw.sent_message_id

\* C12 witness: a wait returned a message although the conversation also
\* holds, below the sent message, a message the same poll would accept.
C12_Witness ==
  /\ pw.pc = "returned"
  /\ pw.ids # {}
  /\ \E i \in 1..Len(chat) :
       /\ i < pw.sent_message_id
       /\ chat[i] = chat[Max(pw.ids)]

\* C13: a token is clicked only on the offer message it was taken from: the
\* message given to _click_inline_button is the stored format message.
C13_ClickOnSourceOffer ==
  nego.clicked # 0 => nego.clicked = nego.format_message

\* C14: whatever the platform, a call in which the session-conflict fault was
\* raised makes exactly one recovery attempt, never none and never a second,
\* and a call without the fault makes none.
C14_ExactlyOneRecovery ==
  job.pc = "done" =>
    /\ job.faults > 0 => job.recoveries = 1
    /\ job.faults = 0 => job.recoveries = 0

\* C15: as long as no recovery found the session unauthorized, is_authenticated
\* stays true and no call is turned away as unauthenticated; a call that comes
\* after a successful recovery runs its normal sequence.
C15_UsableAfterRecovery ==
  /\ ~job.lost => is_authenticated
  /\ job.result = "unauthenticated" => job.lost

\* A call after an authorized recovery in an earlier call ends with a result,
\* having sent once and polled once, with no fault of its own.
C15_Witness ==
  /\ job.recovered_at_start > 0
  /\ ~job.lost
  /\ job.result = "ok"
  /\ job.flow \in ProcessFlows
  /\ job.responder_calls = 2
  /\ job.faults = 0

\* C16: a call that begins after two session-conflict faults in a row, with no
\* successful call between them, makes no call to the responder and no
\* reconnect.
C16_UnusableAfterSecondFault ==
  job.consec_at_start >= 2 => (job.responder_calls = 0 /\ job.recoveries = 0)

\* C17: a call that begins with is_authenticated false sends nothing to the
\* responder and polls nothing, in every flow, and once a recovery has found
\* the session unauthorized is_authenticated is never true again.
C17_NoNetworkAfterFailedRecovery ==
  /\ ~job.auth_at_start => job.responder_calls = 0
  /\ job.lost => ~is_authenticated

\* C18: the failure returned by a rate-limited call carries the wait duration
\* the rate-limit signal gave.
C18_RateLimitCarriesWait ==
  (job.pc = "done" /\ job.flooded) => job.returned_wait = job.flood_seconds

C20_ReturnsWithinTimeoutPlusInterval ==
  /\ ~pw.raised
  /\ (pw.pc = "returned" /\ pw.why = "timeout") =>
       (pw.ids = {} /\ pw.elapsed <= pw.max_wait_time + Interval(pw.fn))

\* C20, amended: the wait never raises, also when every listing fails, and
\* when it gives up it returns None earlier than max_wait_time plus one poll
\* interval plus the time the last listing took.
C20_ReturnsNoneNeverRaises ==
  /\ ~pw.raised
  /\ (pw.pc = "returned" /\ pw.why = "timeout") =>
       /\ pw.ids = {}
       /\ pw.elapsed >= pw.max_wait_time
       /\ pw.elapsed < pw.max_wait_time + Interval(pw.fn) + MaxLatency

\* The wait gave up after every one of its listings failed, although a media
\* message above the watermark was in the conversation.
C20_Witness ==
  /\ pw.pc = "returned"
  /\ pw.why = "timeout"
  /\ pw.allfailed
  /\ pw.elapsed > 0
  /\ \E id \in 1..Len(chat) : id > pw.sent_message_id /\ is_video(chat[id])

\* The media a wait function accepts in a conversation.
WaitMedia(fn, conv, bot, sent_message_id) ==
  IF fn = "twitter" THEN twitter_media(conv, sent_message_id)
                    ELSE video_media(conv, bot, sent_message_id)

\* C21: in both media waits, a poll that lists a failure text above the
\* watermark and no qualifying media returns at that poll; the wait is never
\* still running after such a listing.
C21_FailureTextEndsWait ==
  (pw.pc = "wait" /\ pw.fn \in {"video", "twitter"} /\ pw.seen > 0) =>
    ~ /\ \E i \in 1..pw.seen : i > pw.sent_message_id /\ is_failure_text(chat[i])
      /\ WaitMedia(pw.fn, SubSeq(chat, 1, pw.seen), pw.bot, pw.sent_message_id) = {}

\* C22: no message a media wait returns is a link preview, with or without a
\* photo in the preview.
C22_NoLinkPreviewReturned ==
  (pw.pc = "returned" /\ pw.fn \in {"video", "twitter"}) =>
    \A i \in pw.ids : ~is_webpage(chat[i])

\* C23: when the messages above the watermark that the returning poll listed
\* hold both a still image and a video or audio attachment, the message
\* chosen for upload is a video or audio one.
C23_VideoPreferredOverImage ==
  (pw.pc = "returned" /\ pw.why = "media" /\ ~(pw.bot = "keepmedia" /\ pw.return_all)) =>
    LET above == {i \in 1..pw.seen : i > pw.sent_message_id /\ ~is_webpage(chat[i])}
        c == UploadChoice(pw, chat)
    IN  ( /\ \E i \in above : is_photo(chat[i])
          /\ \E i \in above : is_video(chat[i]) \/ is_audio(chat[i]) )
        => (is_video(chat[c]) \/ is_audio(chat[c]))

\* C24: a wait in all mode returns every qualifying media message above the
\* watermark that the responder sends, those arriving after the first poll
\* that saw media included.
C24_AllModeReturnsEveryItem ==
  (pw.pc = "returned" /\ pw.why = "media" /\ pw.return_all) =>
    pw.ids = WaitMedia(pw.fn, chat, pw.bot, pw.sent_message_id)

\* The keywords of each desired format, and the buttons of the call whose
\* label contains one of them, whatever the case of the label.
Keywords(desired_format) ==
  CASE desired_format = Str360p -> {Str360}
    [] desired_format = Str480p -> {Str480}
    [] desired_format = Str720p -> {Str720, Strhd}
    [] desired_format = Strmp3 -> {Strmp3, Straudio}
    [] OTHER -> {}

KeywordHits ==
  {i \in DataButtons(sel.buttons) :
     \E k \in Keywords(sel.desired_format) : Contains(lower(sel.buttons[i].text), k)}

AudioHits ==
  {i \in DataButtons(sel.buttons) :
     \E k \in {Strmp3, Straudio, Strzvuk, Straudio_cyr} :
        Contains(lower(sel.buttons[i].text), k)}

Numbered == {i \in DataButtons(sel.buttons) : res_match(lower(sel.buttons[i].text)) # -1}

Closest ==
  {i \in Numbered :
     \A j \in Numbered :
        Abs(res_match(lower(sel.buttons[i].text)) - target_res(sel.desired_format))
          <= Abs(res_match(lower(sel.buttons[j].text)) - target_res(sel.desired_format))}

C26_ClosestResolution ==
  (sel.pc = "returned" /\ sel.desired_format # Strmp3 /\ KeywordHits = {}) =>
    /\ Numbered # {} => sel.result = First(Closest)
    /\ sel.result \in Numbered \cup {None}

\* C27: offers 360, 480 and 720 and desired 500p give the token of 360.
C27_FiveHundredSelects360 ==
  ( /\ sel.pc = "returned"
    /\ Len(sel.buttons) = 3
    /\ \A i \in 1..3 : sel.buttons[i].has_data
    /\ sel.buttons[1].text = Str360 /\ sel.buttons[2].text = Str480
    /\ sel.buttons[3].text = Str720
    /\ sel.desired_format = Str500p )
  => sel.result = 1

\* C28: a returned token is the data of a button of the keyboard given, and
\* the result is none when no rule matches: no button with data, or no keyword
\* match and no numbered label for a resolution, or no audio label for mp3.
C28_NeverGuesses ==
  sel.pc = "returned" =>
    /\ sel.result # None => sel.result \in DataButtons(sel.buttons)
    /\ DataButtons(sel.buttons) = {} => sel.result = None
    /\ (sel.desired_format # Strmp3 /\ KeywordHits = {} /\ Numbered = {})
         => sel.result = None
    /\ (sel.desired_format = Strmp3 /\ AudioHits = {}) => sel.result = None

\* A keyboard with buttons, none of which matches the resolution asked for by
\* keyword or by number: the result is none.
C28_Witness ==
  /\ sel.pc = "returned"
  /\ sel.desired_format = Str360p
  /\ Len(sel.buttons) = 2
  /\ DataButtons(sel.buttons) = {1, 2}
  /\ KeywordHits = {} /\ Numbered = {}
  /\ sel.result = None

\* C29: for mp3 the result is none or the token of a button whose label holds
\* an audio keyword; a label with only a resolution is never selected.
C29_Mp3OnlyAudioLabels ==
  (sel.pc = "returned" /\ sel.desired_format = Strmp3) =>
    (sel.result = None \/ sel.result \in AudioHits)

\* mp3 asked of a keyboard that offers resolutions only: none.
C29_Witness ==
  /\ sel.pc = "returned"
  /\ sel.desired_format = Strmp3
  /\ Numbered # {}
  /\ Numbered = DataButtons(sel.buttons)
  /\ AudioHits = {}
  /\ sel.result = None

\* C30: a grouped upload of more than ten media items hands exactly the first
\* ten to the storage channel and logs a warning for the items left out.
C30_TruncationIsSignalled ==
  (grp.pc = "done" /\ grp.with_media > MaxGroup) =>
    (grp.sent = MaxGroup /\ grp.warned)

\* C31: a grouped upload returns a reference only if every message of the
\* list it was given was uploaded.
C31_ReferenceOnlyIfAllUploaded ==
  (grp.pc = "done" /\ grp.result # None) => grp.sent = grp.messages

\* The lines of the caption given and of the caption returned.
SourceLines == split(cap.original_caption)
ResultLines == split(cap.result)
SourceByline ==
  LET last == SourceLines[Len(SourceLines)]
  IN \/ \E i \in DOMAIN last : last[i] = "@"
     \/ Contains(lower(last), <<"v", "i", "a">>)
     \/ Contains(lower(last), <<"b", "y">>)

\* C32: an empty caption gives the attribution line alone. Otherwise the
\* lines before the final one are kept in order, the final line is kept too
\* unless it resembles a byline, nothing but blank lines follows what is kept,
\* and the result ends with the attribution line.
C32_CaptionRewritten ==
  cap.pc = "returned" =>
    /\ cap.original_caption = <<>> => cap.result = Attribution
    /\ cap.original_caption # <<>> =>
         LET kept == IF SourceByline THEN Len(SourceLines) - 1 ELSE Len(SourceLines)
         IN /\ Len(ResultLines) > kept
            /\ SubSeq(ResultLines, 1, kept) = SubSeq(SourceLines, 1, kept)
            /\ ResultLines[Len(ResultLines)] = Attribution
            /\ \A k \in (kept + 1)..(Len(ResultLines) - 1) : ResultLines[k] = <<>>

\* A caption of two lines whose second line names an identity: the first line
\* is kept and the second is gone.
C32_Witness ==
  /\ cap.pc = "returned"
  /\ Len(SourceLines) = 2
  /\ SourceLines[1] = <<"x">>
  /\ SourceLines[2] = <<"@", "x">>
  /\ ResultLines[1] = <<"x">>
  /\ ResultLines[Len(ResultLines)] = Attribution
  /\ \A k \in DOMAIN ResultLines : ResultLines[k] # <<"@", "x">>

\* C33: a call of process_twitter_url with pre_sent_message_id sends no
\* message to the responder, and the format wait and the media wait get that
\* id as their watermark.
C33_PreSentNotResent ==
  tw.pre_sent_message_id # None =>
    /\ tw.sends = 0
    /\ tw.format_watermark \in {0, tw.pre_sent_message_id}
    /\ tw.media_watermark \in {0, tw.pre_sent_message_id}
    /\ \A i \in tw.media : i > tw.pre_sent_message_id

\* A call with pre_sent_message_id and a format chosen went through both
\* waits and ended with media, in a conversation with one url message only.
C33_Witness ==
  /\ tw.pre_sent_message_id # None
  /\ tw.callback_data
  /\ tw.result = "ok"
  /\ tw.format_watermark = tw.pre_sent_message_id
  /\ tw.media_watermark = tw.pre_sent_message_id
  /\ Cardinality({i \in 1..Len(chat) : chat[i] = "sent"}) = 1

\* C34: whatever the number of queue_processing_request calls, at most one
\* process_queue_worker task is ever created, and it is created by the first.
C34_AtMostOneWorker ==
  /\ workers <= 1
  /\ processing_workers_started <=> (workers = 1)
  /\ nsub > 0 /\ Len(requests) > 0 => workers = 1

\* Two requests were queued and one worker task exists.
C34_Witness ==
  /\ Len(requests) = 2
  /\ workers = 1

\* C35: current_processing_user is the requester of the job while the worker
\* processes one, and None whenever the worker waits on the queue.
C35_MarkerFollowsWorker ==
  /\ wpc = "get" => current_processing_user = 0
  /\ wpc \in {"send", "poll", "upload", "deliver"} =>
       current_processing_user = requests[wreq].user_id

\* C36: request.error is set only on a request whose result is None.
C36_ErrorOnlyWithoutResult ==
  \A i \in 1..Len(requests) : requests[i].error => requests[i].result = 0

\* C38: once a queued job has its reference, the key of its url has a row
\* with that reference, before the delivery and ever after.
C38_CachedBeforeDelivery ==
  \A i \in 1..Len(requests) :
    requests[i].result # 0 =>
      get_video(videos, CacheKey(requests[i].url, NoFormat)) = requests[i].result

\* C39: the reference a job gets is the id of the last message its upload put
\* in the storage channel, one id also for a group; the row and every
\* delivery from the cache carry a reference returned by an upload for the key.
C39_GroupReferenceIsLastItem ==
  /\ (wpc = "deliver" /\ requests[wreq].result # 0) =>
       requests[wreq].result = storageNext - 1
  /\ \A i \in 1..Len(videos) :
       \E u \in uploads : u[1] = videos[i].url /\ u[2] = videos[i].channel_message_id
  /\ \A d \in served : d \in uploads

\* The first upload of the run was an Instagram group of several items and
\* the job holds the id of the last of them.
C39_Witness ==
  /\ wpc = "deliver"
  /\ requests[wreq].url_type = "instagram"
  /\ Cardinality(uploads) = 1
  /\ storageNext >= 3
  /\ requests[wreq].result = storageNext - 1

\* C40: a job sends its url at most max_retries = 2 times and the attempt
\* counter stays below that number; a further attempt begins only from a send
\* that raised or a poll that found no media, never from the upload; every
\* attempt sends the priming message and then the url, and the watermark of
\* its polls is the id of that url message. Under a fair event loop the call
\* returns: the job reaches the delivery of its result.
C40_InstagramAtMostTwoSends ==
  /\ [](/\ \A i \in 1..Len(requests) : requests[i].sends <= Attempts(requests[i].url_type)
        /\ \A i \in 1..Len(requests) : requests[i].sends <= 2
        /\ attempt < max_retries
        /\ wpc = "poll" => wm >= 2)
  /\ [][/\ attempt' > attempt =>
             /\ wpc \in {"send", "poll"}
             /\ wpc' = "send"
             /\ requests[wreq].url_type = "instagram"
        /\ (wpc = "send" /\ wpc' = "poll") =>
             (nextId' = nextId + 2 /\ wm' = nextId + 1)
        /\ (wpc = "poll" /\ wpc' \in {"poll", "upload"}) => wm' = wm]_vars
  /\ \A r \in 1..MaxReq :
       (wreq = r /\ wpc \in {"send", "poll", "upload"})
         ~> (wreq = r /\ wpc = "deliver")

\* An Instagram job is polling on its second attempt after two sends.
C40_Witness ==
  /\ wpc = "poll"
  /\ requests[wreq].url_type = "instagram"
  /\ attempt = 1
  /\ requests[wreq].sends = 2

\* C37 (as claimed): when a button of a menu is pressed and a url is
\* processed, the url processed (and with it the cache key url#format) is the
\* url the menu was shown for, whoever presses and whatever was submitted
\* since.
C37_MenuUrlIsProcessed ==
  [][\A t \in 1..Len(tasks) :
       (tasks[t].pc = "menu" /\ tasks'[t].pc # "menu" /\ tasks'[t].fmt # NoFormat)
         => tasks'[t].url = tasks[t].url]_vars

====
